---------------------------- MODULE Spec2Model ----------------------------
(***************************************************************************)
(* A model of the booking engine of src/lambda_function.py: the interval  *)
(* merge, the free-slot calculator, the conflict detector, the target     *)
(* event resolver and the message handler that drives them against a      *)
(* calendar store.                                                         *)
(*                                                                         *)
(* Instants are integers, seconds since midnight of day 0 in the single   *)
(* configured timezone.  An event is a record                              *)
(*   [id, start, end, status, description]                                 *)
(* and a description is a sequence of tokens (see Description).            *)
(***************************************************************************)
EXTENDS Integers, Sequences, FiniteSets, TLC

VARIABLES
    calendar,   \* the calendar store: a set of events
    nextId,     \* the id the store gives to the next inserted event
    req,        \* per handler: the request in flight and its progress
    call        \* the argument and result of a pure operation under study

vars == <<calendar, nextId, req, call>>

---------------------------------------------------------------------------
(* Units and program constants *)

Minute == 60
Hour == 3600
Day == 86400

\* DEFAULT_DURATION_MINUTES, WORK_START "09:00", WORK_END "18:00"
DEFAULT_DURATION_MIN == 60
WORK_START == 32400
WORK_END == 64800

\* the ±4 h search window and the 3600 s acceptance radius of the resolver
SEARCH_HOURS == 4
LOOKAHEAD_DAYS == 30
ACCEPT_SECONDS == 3600

None == "None"
\* an absent instant (Optional[datetime]), an absent event id and an absent
\* event
NoTime == -1
NoId == 0
NoEvent ==
    [id |-> NoId, start |-> NoTime, end |-> NoTime, status |-> None,
     description |-> <<>>]

Max(a, b) == IF a >= b THEN a ELSE b
Min(a, b) == IF a <= b THEN a ELSE b
Abs(a) == IF a >= 0 THEN a ELSE -a

Front(s) == SubSeq(s, 1, Len(s) - 1)
Last(s) == s[Len(s)]

---------------------------------------------------------------------------
(* 4.1 Interval model: _merge_busy_ranges.  A range is a pair <<start, end>>. *)

\* list.sort(key=lambda x: x[0]) is stable: x goes after every element whose
\* start is <= its own.
RECURSIVE InsertByStart(_, _)
InsertByStart(sorted, x) ==
    IF sorted = <<>> THEN <<x>>
    ELSE IF Last(sorted)[1] <= x[1] THEN Append(sorted, x)
    ELSE Append(InsertByStart(Front(sorted), x), Last(sorted))

RECURSIVE SortByStart(_)
SortByStart(ranges) ==
    IF ranges = <<>> THEN <<>>
    ELSE InsertByStart(SortByStart(Front(ranges)), Last(ranges))

\* a fold that merges only ranges that properly overlap (start < last_end)
RECURSIVE MergeFoldStrict(_, _)
MergeFoldStrict(merged, rest) ==
    IF rest = <<>> THEN merged
    ELSE LET r == rest[1]
             last == Last(merged)
         IN  IF r[1] < last[2]
             THEN MergeFoldStrict(Append(Front(merged), <<last[1], Max(last[2], r[2])>>),
                                  Tail(rest))
             ELSE MergeFoldStrict(Append(merged, r), Tail(rest))

\* the loop body of lines 226-231
RECURSIVE MergeFold(_, _)
MergeFold(merged, rest) ==
    IF rest = <<>> THEN merged
    ELSE LET r == rest[1]
             last == Last(merged)
         IN  IF r[1] <= last[2]
             THEN MergeFold(Append(Front(merged), <<last[1], Max(last[2], r[2])>>),
                            Tail(rest))
             ELSE MergeFold(Append(merged, r), Tail(rest))

MergeBusy(ranges) ==
    IF ranges = <<>> THEN <<>>
    ELSE LET sorted == SortByStart(ranges)
         IN  MergeFold(<<sorted[1]>>, Tail(sorted))

---------------------------------------------------------------------------
(* The calendar store as the handler sees it *)

\* events().list(timeMin, timeMax, singleEvents, orderBy="startTime"): the
\* events that end after timeMin and start before timeMax, by start time
\* (events with equal starts by id).
RECURSIVE OrderByStartTime(_)
OrderByStartTime(evs) ==
    IF evs = {} THEN <<>>
    ELSE LET first == CHOOSE e \in evs :
                 \A f \in evs : e.start < f.start
                                \/ (e.start = f.start /\ e.id <= f.id)
         IN  <<first>> \o OrderByStartTime(evs \ {first})

ListEvents(cal, time_min, time_max) ==
    OrderByStartTime({e \in cal : e.end > time_min /\ e.start < time_max})

\* _event_range of a timed event: its two instants
EventRange(event) == <<event.start, event.end>>

---------------------------------------------------------------------------
(* 4.2 Free-slot calculator: _compute_free_slots *)

WindowStart(target_date) == target_date * Day + WORK_START
WindowEnd(target_date) == target_date * Day + WORK_END

\* a busy list that takes cancelled events too
RECURSIVE BusyRangesWithCancelled(_, _, _)
BusyRangesWithCancelled(events, window_start, window_end) ==
    IF events = <<>> THEN <<>>
    ELSE LET event == events[1]
             rng == EventRange(event)
             rest == BusyRangesWithCancelled(Tail(events), window_start, window_end)
         IN  IF rng[2] <= window_start \/ rng[1] >= window_end THEN rest
             ELSE <<<<Max(rng[1], window_start), Min(rng[2], window_end)>>>> \o rest

\* lines 247-254: the clipped ranges of the non-cancelled events that
\* overlap the window, in the order of the event list
RECURSIVE BusyRanges(_, _, _)
BusyRanges(events, window_start, window_end) ==
    IF events = <<>> THEN <<>>
    ELSE LET event == events[1]
             rng == EventRange(event)
             rest == BusyRanges(Tail(events), window_start, window_end)
         IN  IF event.status = "cancelled" THEN rest
             ELSE IF rng[2] <= window_start \/ rng[1] >= window_end THEN rest
             ELSE <<<<Max(rng[1], window_start), Min(rng[2], window_end)>>>> \o rest

\* lines 257-264: the gaps the cursor walk finds
RECURSIVE FreeWalk(_, _, _)
FreeWalk(busy, cursor, window_end) ==
    IF busy = <<>>
    THEN IF cursor < window_end THEN <<<<cursor, window_end>>>> ELSE <<>>
    ELSE LET b == busy[1]
             gap == IF cursor < b[1] THEN <<<<cursor, b[1]>>>> ELSE <<>>
         IN  gap \o FreeWalk(Tail(busy), Max(cursor, b[2]), window_end)

\* a filter that drops the slots of exactly the requested duration
LongEnoughStrict(slot, duration_minutes) ==
    (slot[2] - slot[1]) > duration_minutes * Minute

\* line 267: (e - s) >= timedelta(minutes=duration_minutes)
LongEnough(slot, duration_minutes) ==
    (slot[2] - slot[1]) >= duration_minutes * Minute

ComputeFreeSlots(events, target_date, duration_minutes) ==
    LET window_start == WindowStart(target_date)
        window_end == WindowEnd(target_date)
        busy == MergeBusy(BusyRanges(events, window_start, window_end))
        free == FreeWalk(busy, window_start, window_end)
    IN  SelectSeq(free, LAMBDA s : LongEnough(s, duration_minutes))


---------------------------------------------------------------------------
(* Descriptions and owner markers.  A description is a sequence of tokens:  *)
(* "L" is the literal LINE_USER_ID:, "N" a newline, "M" the MODE:<mode>     *)
(* line, any other token a character of a user id or of the notes.          *)

Marker(user_id) == <<"L">> \o user_id

RECURSIVE StripLeft(_)
StripLeft(s) == IF s # <<>> /\ s[1] = "N" THEN StripLeft(Tail(s)) ELSE s

RECURSIVE StripRight(_)
StripRight(s) == IF s # <<>> /\ Last(s) = "N" THEN StripRight(Front(s)) ELSE s

\* str.strip()
Strip(s) == StripLeft(StripRight(s))

\* line 448: f"LINE_USER_ID:{user_id}\nMODE:{mode}\n{notes}".strip()
Description(user_id, notes) ==
    Strip(Marker(user_id) \o <<"N", "M", "N">> \o notes)

\* needle in hay
Contains(hay, needle) ==
    \E i \in 0..(Len(hay) - Len(needle)) :
        SubSeq(hay, i + 1, i + Len(needle)) = needle

\* an owner test that compares the whole first line of the description
OwnerMatchesExact(user_id, description) ==
    \/ user_id = <<>>
    \/ /\ Len(description) >= Len(user_id) + 1
       /\ SubSeq(description, 1, Len(user_id) + 1) = Marker(user_id)
       /\ (Len(description) = Len(user_id) + 1
            \/ description[Len(user_id) + 2] = "N")

\* line 314, negated: the event is not skipped
OwnerMatches(user_id, description) ==
    ~(user_id # <<>> /\ ~Contains(description, Marker(user_id)))

---------------------------------------------------------------------------
(* 4.3 Conflict detector: _has_conflict *)

\* a detector that counts cancelled events
HasConflictCountingCancelled(events, exclude_event_id) ==
    \E i \in 1..Len(events) :
        ~(exclude_event_id # NoId /\ events[i].id = exclude_event_id)

\* a detector that ignores the exclusion
HasConflictNoExclude(events, exclude_event_id) ==
    \E i \in 1..Len(events) : events[i].status # "cancelled"

\* a detector that looks at the first event only
HasConflictFirstOnly(events, exclude_event_id) ==
    /\ events # <<>>
    /\ events[1].status # "cancelled"
    /\ ~(exclude_event_id # NoId /\ events[1].id = exclude_event_id)

HasConflict(events, exclude_event_id) ==
    \E i \in 1..Len(events) :
        /\ events[i].status # "cancelled"
        /\ ~(exclude_event_id # NoId /\ events[i].id = exclude_event_id)

---------------------------------------------------------------------------
(* 4.4 Target event resolver: _find_target_event *)

\* a radius test that excludes the boundary
WithinRadiusStrict(start_dt, target_dt) ==
    Abs(start_dt - target_dt) < ACCEPT_SECONDS

\* line 318
WithinRadius(start_dt, target_dt) ==
    Abs(start_dt - target_dt) <= ACCEPT_SECONDS

\* lines 312-322: the first event of the list that is not skipped
RECURSIVE ScanForTarget(_, _, _)
ScanForTarget(events, user_id, target_dt) ==
    IF events = <<>> THEN NoEvent
    ELSE LET event == events[1]
         IN  IF ~OwnerMatches(user_id, event.description)
             THEN ScanForTarget(Tail(events), user_id, target_dt)
             ELSE IF target_dt # NoTime
             THEN IF WithinRadius(EventRange(event)[1], target_dt)
                  THEN event
                  ELSE ScanForTarget(Tail(events), user_id, target_dt)
             ELSE event

\* lines 303-309
SearchMin(target_dt, now) ==
    IF target_dt # NoTime THEN target_dt - SEARCH_HOURS * Hour ELSE now
SearchMax(target_dt, now) ==
    IF target_dt # NoTime THEN target_dt + SEARCH_HOURS * Hour
    ELSE now + LOOKAHEAD_DAYS * Day

FindTargetEvent(cal, user_id, target_dt, now) ==
    ScanForTarget(ListEvents(cal, SearchMin(target_dt, now), SearchMax(target_dt, now)),
                  user_id, target_dt)

---------------------------------------------------------------------------
(* 4.5 The message handler: _handle_message, one step per call to the      *)
(* calendar store.  A handler serves one message at a time (the loop of    *)
(* main); two handlers are two concurrent invocations.                      *)

Handlers == {"h1", "h2"}

\* the bound on event ids: no new request is accepted once it is passed
MaxId == 3

T1000 == 10 * Hour
T1030 == 10 * Hour + 30 * Minute
T1045 == 10 * Hour + 45 * Minute
T1100 == 11 * Hour
T1130 == 11 * Hour + 30 * Minute

\* The messages of the model.  A user id is a sequence of characters (the
\* empty one is a source without userId); <<"a">> is a proper prefix of
\* <<"a", "b">>.  A sender is a user id with the notes extracted from the
\* text; the notes <<"L", "a">> quote the marker of user <<"a">>.
Senders ==
    {<< <<"a">>, <<>> >>, << <<"a", "b">>, <<>> >>, << <<>>, <<"L", "a">> >>}
StartIsos == {NoTime, T1000, T1030, T1100}
EndIsos == {NoTime, T1100}
TargetIsos == {NoTime, T1130}
\* a cancel reads neither start, end nor notes
CancelStartIsos == {NoTime, T1000}
Nows == {0, T1045}

\* the inputs of the two concurrent handlers
RaceSenders == {<< <<"a">>, <<>> >>}
RaceStartIsos == {NoTime, T1000, T1030}

\* a calendar the handler may find: empty, or holding one cancelled event
\* that was not written by the handler (it has no description)
SeedEvent ==
    [id |-> 1, start |-> T1030, end |-> T1130, status |-> "cancelled",
     description |-> <<>>]
SeedCalendars == {{}, {SeedEvent}}
FirstId == SeedEvent.id + 1

IdleReq ==
    [pc |-> "idle", intent |-> None, user_id |-> <<>>, start_dt |-> NoTime,
     end_dt |-> NoTime, target_dt |-> NoTime, notes |-> <<>>,
     target |-> NoEvent, fetched |-> FALSE, events |-> <<>>,
     status |-> None, slots |-> <<>>]

NoCall == [fn |-> None]

\* lines 163-168 of _extract_intent: the defaulting of the end
ExtractEnd(start_dt, end_dt) ==
    IF start_dt # NoTime /\ end_dt = NoTime
    THEN start_dt + DEFAULT_DURATION_MIN * Minute
    ELSE IF start_dt # NoTime /\ end_dt # NoTime /\ end_dt <= start_dt
    THEN start_dt + DEFAULT_DURATION_MIN * Minute
    ELSE end_dt

\* a validation that lets a change through
InvalidNewOnly(intent, start_dt, end_dt) ==
    intent = "new" /\ (start_dt = NoTime \/ end_dt = NoTime)

\* line 405
Invalid(intent, start_dt, end_dt) ==
    intent \in {"new", "change"} /\ (start_dt = NoTime \/ end_dt = NoTime)

Finish(r, status) == [req[r] EXCEPT !.pc = "done", !.status = status]

\* lines 392-406: the intent is extracted and validated
Receive(r, intent, user_id, start_iso, end_iso, target_iso, notes) ==
    /\ req[r].pc \in {"idle", "done"}
    /\ intent = "new" => nextId <= MaxId
    /\ LET start_dt == start_iso
           end_dt == ExtractEnd(start_iso, end_iso)
           fresh == [IdleReq EXCEPT !.intent = intent, !.user_id = user_id,
                                    !.start_dt = start_dt, !.end_dt = end_dt,
                                    !.target_dt = target_iso, !.notes = notes]
       IN  req' = [req EXCEPT ![r] =
                IF Invalid(intent, start_dt, end_dt)
                THEN [fresh EXCEPT !.pc = "done", !.status = "error"]
                ELSE IF intent \in {"cancel", "change"}
                THEN [fresh EXCEPT !.pc = "resolve"]
                ELSE [fresh EXCEPT !.pc = "fetch"]]
    /\ UNCHANGED <<calendar, nextId, call>>

\* lines 409-414 and 423-428: the target is looked up
Resolve(r) ==
    /\ req[r].pc = "resolve"
    /\ \E now \in Nows :
         LET target_event == FindTargetEvent(calendar, req[r].user_id,
                                             req[r].target_dt, now)
         IN  req' = [req EXCEPT ![r] =
                  IF target_event = NoEvent
                  THEN Finish(r, "not_found")
                  ELSE [req[r] EXCEPT !.target = target_event,
                            !.pc = IF req[r].intent = "cancel"
                                   THEN "delete" ELSE "fetch"]]
    /\ UNCHANGED <<calendar, nextId, call>>

\* lines 415-419: events().delete; the store refuses an id it no longer holds
Delete(r) ==
    /\ req[r].pc = "delete"
    /\ IF \E e \in calendar : e.id = req[r].target.id
       THEN /\ calendar' = {e \in calendar : e.id # req[r].target.id}
            /\ req' = [req EXCEPT ![r] = Finish(r, "cancelled")]
       ELSE /\ calendar' = calendar
            /\ req' = [req EXCEPT ![r] = Finish(r, "error")]
    /\ UNCHANGED <<nextId, call>>

\* line 430: the snapshot of the proposed range; isoformat of a missing
\* instant raises
Fetch(r) ==
    /\ req[r].pc = "fetch"
    /\ req' = [req EXCEPT ![r] =
           IF req[r].start_dt = NoTime \/ req[r].end_dt = NoTime
           THEN Finish(r, "error")
           ELSE [req[r] EXCEPT !.pc = "decide", !.fetched = TRUE,
                     !.events = ListEvents(calendar, req[r].start_dt, req[r].end_dt)]]
    /\ UNCHANGED <<calendar, nextId, call>>

\* a decision on the store as it is now
DecisionEventsFresh(r) == ListEvents(calendar, req[r].start_dt, req[r].end_dt)

\* lines 430-432: the decision is taken on the events fetched at line 430
DecisionEvents(r) == req[r].events

\* line 431
ExcludeId(r) == IF req[r].target # NoEvent THEN req[r].target.id ELSE NoId

\* line 433 (the calendar day of the start) and lines 437-438
DayOf(instant) == instant \div Day
DayMin(target_date) == target_date * Day
\* time.max is the last microsecond of the day: an event starts before it
\* exactly when it starts before the next midnight
DayMax(target_date) == (target_date + 1) * Day

\* line 440
DurationMinutes(start_dt, end_dt) == (end_dt - start_dt) \div Minute

\* lines 433-442: the alternatives of a refusal
Alternatives(cal, start_dt, end_dt) ==
    LET day_start == DayOf(start_dt)
        day_events == ListEvents(cal, DayMin(day_start), DayMax(day_start))
        slots == ComputeFreeSlots(day_events, day_start,
                                  DurationMinutes(start_dt, end_dt))
    IN  SubSeq(slots, 1, Min(3, Len(slots)))

\* lines 448-454: the body of the event written
EventBody(r, id, status) ==
    [id |-> id, start |-> req[r].start_dt, end |-> req[r].end_dt,
     status |-> status,
     description |-> Description(req[r].user_id, req[r].notes)]

\* lines 432-446: the request is refused
Refuse(r) ==
    /\ req[r].pc = "decide"
    /\ HasConflict(DecisionEvents(r), ExcludeId(r))
    /\ req' = [req EXCEPT ![r] =
           [Finish(r, "conflict") EXCEPT
               !.slots = Alternatives(calendar, req[r].start_dt, req[r].end_dt)]]
    /\ UNCHANGED <<calendar, nextId, call>>

\* lines 456-465: events().update replaces the target's body and keeps its
\* id; the store refuses an id it no longer holds
Update(r) ==
    /\ req[r].pc = "decide"
    /\ ~HasConflict(DecisionEvents(r), ExcludeId(r))
    /\ req[r].intent = "change" /\ req[r].target # NoEvent
    /\ IF \E e \in calendar : e.id = req[r].target.id
       THEN \E old \in {e \in calendar : e.id = req[r].target.id} :
            \E status \in {old.status, "confirmed"} :
              /\ calendar' = (calendar \ {old}) \cup {EventBody(r, old.id, status)}
              /\ req' = [req EXCEPT ![r] = Finish(r, "updated")]
       ELSE /\ calendar' = calendar
            /\ req' = [req EXCEPT ![r] = Finish(r, "error")]
    /\ UNCHANGED <<nextId, call>>

\* lines 467-471: events().insert
Insert(r) ==
    /\ req[r].pc = "decide"
    /\ ~HasConflict(DecisionEvents(r), ExcludeId(r))
    /\ ~(req[r].intent = "change" /\ req[r].target # NoEvent)
    /\ calendar' = calendar \cup {EventBody(r, nextId, "confirmed")}
    /\ nextId' = nextId + 1
    /\ req' = [req EXCEPT ![r] = Finish(r, "created")]
    /\ UNCHANGED call

Step(r) ==
    \/ Resolve(r)
    \/ Delete(r)
    \/ Fetch(r)
    \/ Refuse(r)
    \/ Update(r)
    \/ Insert(r)

\* Requests handled one at a time: a single handler
Init ==
    /\ calendar \in SeedCalendars
    /\ nextId = FirstId
    /\ req = [r \in Handlers |-> IdleReq]
    /\ call = NoCall

ReceiveFrom(r, senders, starts, ends, targets, cancelStarts) ==
    \/ \E sender \in senders, start_iso \in starts, end_iso \in ends :
            Receive(r, "new", sender[1], start_iso, end_iso, NoTime, sender[2])
    \/ \E sender \in senders, start_iso \in starts, end_iso \in ends,
          target_iso \in targets :
            Receive(r, "change", sender[1], start_iso, end_iso, target_iso,
                    sender[2])
    \/ \E sender \in senders, start_iso \in cancelStarts, target_iso \in targets :
            Receive(r, "cancel", sender[1], start_iso, NoTime, target_iso, <<>>)

ReceiveAny ==
    ReceiveFrom("h1", Senders, StartIsos, EndIsos, TargetIsos, CancelStartIsos)

Next ==
    \/ ReceiveAny
    \/ Step("h1")

Spec == Init /\ [][Next]_vars

\* Two concurrent invocations
RaceReceive ==
    \E r \in Handlers :
        ReceiveFrom(r, RaceSenders, RaceStartIsos, {NoTime}, {NoTime}, {NoTime})

RaceNext ==
    \/ RaceReceive
    \/ \E r \in Handlers : Step(r)

RaceSpec == Init /\ [][RaceNext]_vars

---------------------------------------------------------------------------
(* The interval merge on its own: a list of ranges is merged, and the      *)
(* result merged again.                                                     *)

MaxRanges == 3

T0800 == 8 * Hour
T0830 == 8 * Hour + 30 * Minute
T0900 == 9 * Hour
T1200 == 12 * Hour
T1700 == 17 * Hour
T1800 == 18 * Hour
T1900 == 19 * Hour

MergeInstants == {T0900, T1000, T1030, T1100, T1130}
MergeRanges == {r \in MergeInstants \X MergeInstants : r[1] <= r[2]}
RangeLists == UNION {[1..n -> MergeRanges] : n \in 0..MaxRanges}

MergeInit ==
    /\ calendar = {}
    /\ nextId = FirstId
    /\ req = [r \in Handlers |-> IdleReq]
    /\ call \in {[fn |-> "merge", phase |-> "in", ranges |-> R,
                  once |-> <<>>, twice |-> <<>>] : R \in RangeLists}

MergeOnce ==
    /\ call.phase = "in"
    /\ call' = [call EXCEPT !.phase = "once", !.once = MergeBusy(call.ranges)]
    /\ UNCHANGED <<calendar, nextId, req>>

MergeTwice ==
    /\ call.phase = "once"
    /\ call' = [call EXCEPT !.phase = "twice", !.twice = MergeBusy(call.once)]
    /\ UNCHANGED <<calendar, nextId, req>>

MergeNext == MergeOnce \/ MergeTwice

MergeSpec == MergeInit /\ [][MergeNext]_vars

---------------------------------------------------------------------------
(* The free-slot calculator on its own: the alternatives of one day are    *)
(* computed from the events the store lists for that day (lines 433-441).  *)

MaxSlotEvents == 3

SlotRangeSeq ==
    << <<T0800, T0830>>, <<T0800, T1000>>, <<T1000, T1100>>, <<T1030, T1130>>,
       <<T1100, T1200>>, <<T1700, T1900>>, <<T1800, T1900>>, <<T0800, T1900>>,
       <<T1000, T1000>> >>

SlotEvents ==
    {[id |-> 2 * i - (IF st = "confirmed" THEN 1 ELSE 0),
      start |-> SlotRangeSeq[i][1], end |-> SlotRangeSeq[i][2],
      status |-> st, description |-> <<>>] :
        i \in 1..Len(SlotRangeSeq), st \in {"confirmed", "cancelled"}}

SlotDurations == {0, 60, 120}

SlotInit ==
    /\ calendar \in {c \in SUBSET SlotEvents : Cardinality(c) <= MaxSlotEvents}
    /\ nextId = FirstId
    /\ req = [r \in Handlers |-> IdleReq]
    /\ call \in {[fn |-> "slots", phase |-> "in", day |-> 0, duration |-> d,
                  slots |-> <<>>] : d \in SlotDurations}

DayEvents(cal, day) == ListEvents(cal, DayMin(day), DayMax(day))

ComputeSlots ==
    /\ call.phase = "in"
    /\ call' = [call EXCEPT !.phase = "done",
                    !.slots = ComputeFreeSlots(DayEvents(calendar, call.day),
                                               call.day, call.duration)]
    /\ UNCHANGED <<calendar, nextId, req>>

SlotNext == ComputeSlots

SlotSpec == SlotInit /\ [][SlotNext]_vars

---------------------------------------------------------------------------
(* Claims about the interval merge *)

SortedByStart(rs) == \A i \in 1..(Len(rs) - 1) : rs[i][1] <= rs[i + 1][1]
StrictlyDisjoint(rs) == \A i \in 1..(Len(rs) - 1) : rs[i][2] < rs[i + 1][1]

\* C1: for every list of ranges (unordered, overlapping or touching) the
\* merged list is sorted ascending by start, each merged range starts
\* strictly after the previous one ends, merging the merged list again gives
\* the same list, and the empty list is merged to the empty list.
C1_MergeSortedDisjointIdempotent ==
    call.fn = "merge" =>
        /\ call.phase \in {"once", "twice"} =>
             /\ SortedByStart(call.once)
             /\ StrictlyDisjoint(call.once)
             /\ (call.ranges = <<>> => call.once = <<>>)
        /\ call.phase = "twice" => call.twice = call.once

\* an unordered list with touching ranges has been merged twice
C1_Witness ==
    /\ call.fn = "merge" /\ call.phase = "twice"
    /\ Len(call.ranges) = 3 /\ Len(call.once) = 2
    /\ call.ranges[2][1] < call.ranges[1][1]
    /\ \E i, j \in 1..3 : call.ranges[i][2] = call.ranges[j][1]
                          /\ call.ranges[i][1] < call.ranges[j][1]

---------------------------------------------------------------------------
(* Claims about the free-slot calculator *)

SlotWindow == <<WindowStart(call.day), WindowEnd(call.day)>>

\* the merged busy ranges of the day, clipped to the window
MergedBusy ==
    MergeBusy(BusyRanges(DayEvents(calendar, call.day), SlotWindow[1], SlotWindow[2]))

SeqRange(sq) == {sq[i] : i \in 1..Len(sq)}

\* the instants at which a range of the day begins or ends, within the window
CutPoints ==
    {SlotWindow[1], SlotWindow[2]}
    \cup {x \in UNION {{e.start, e.end} : e \in calendar}
               \cup UNION {{r[1], r[2]} : r \in SeqRange(call.slots)} :
            SlotWindow[1] <= x /\ x <= SlotWindow[2]}

\* the elementary intervals of the window: between two neighbouring cut points
Pieces ==
    {<<p, q>> \in CutPoints \X CutPoints :
        p < q /\ ~\E x \in CutPoints : p < x /\ x < q}

Covers(r, piece) == r[1] <= piece[1] /\ piece[2] <= r[2]

\* how many returned slots and merged busy ranges hold the piece
CoverCount(piece) ==
    Cardinality({i \in 1..Len(call.slots) : Covers(call.slots[i], piece)})
    + Cardinality({i \in 1..Len(MergedBusy) : Covers(MergedBusy[i], piece)})

SetMax(S) == CHOOSE x \in S : \A y \in S : y <= x
SetMin(S) == CHOOSE x \in S : \A y \in S : x <= y

\* the length of the busy-free gap of the window that holds the piece
GapLength(piece) ==
    SetMin({SlotWindow[2]} \cup {b[1] : b \in {c \in SeqRange(MergedBusy) : c[1] >= piece[2]}})
    - SetMax({SlotWindow[1]} \cup {b[2] : b \in {c \in SeqRange(MergedBusy) : c[2] <= piece[1]}})

\* C2 as stated: for every minDuration the returned slots and the merged
\* busy ranges reconstruct the window: every instant lies in exactly one.
C2_Original_ExactReconstruction ==
    (call.fn = "slots" /\ call.phase = "done") =>
        \A piece \in Pieces : CoverCount(piece) = 1

\* C2 amended: no instant of the window lies in more than one returned or
\* merged busy range, and an instant in none of them lies in a gap between
\* busy ranges that is shorter than minDuration (the gaps the calculator
\* drops); so with no gap shorter than minDuration the reconstruction is exact.
C2_ReconstructionUpToShortGaps ==
    (call.fn = "slots" /\ call.phase = "done") =>
        \A piece \in Pieces :
            /\ CoverCount(piece) <= 1
            /\ CoverCount(piece) = 0 => GapLength(piece) < call.duration * Minute

\* a gap shorter than minDuration was dropped and a longer one returned
C2_Witness ==
    /\ call.fn = "slots" /\ call.phase = "done"
    /\ call.duration = 120
    /\ \E e \in calendar : e.status = "confirmed" /\ e.start = T1000 /\ e.end = T1100
    /\ call.slots = << <<T1100, T1800>> >>

Overlaps(slot, e) == slot[1] < e.end /\ e.start < slot[2]

\* the events that can shrink a slot: not cancelled, and not fully outside
\* the window
Relevant(cal) ==
    {e \in cal : e.status # "cancelled"
                 /\ ~(e.end <= SlotWindow[1] \/ e.start >= SlotWindow[2])}

\* C3: every returned slot lies inside the working window, lasts at least
\* minDuration, overlaps no non-cancelled event, and the slots are in
\* chronological order; cancelled events and events fully outside the window
\* change nothing; window 09:00-18:00 with one event 10:00-11:00 and 60
\* minutes gives exactly 09:00-10:00 and 11:00-18:00.
C3_SlotsSafe ==
    (call.fn = "slots" /\ call.phase = "done") =>
        /\ \A i \in 1..Len(call.slots) :
             /\ SlotWindow[1] <= call.slots[i][1]
             /\ call.slots[i][2] <= SlotWindow[2]
             /\ call.slots[i][2] - call.slots[i][1] >= call.duration * Minute
             /\ \A e \in calendar :
                  e.status # "cancelled" => ~Overlaps(call.slots[i], e)
        /\ \A i \in 1..(Len(call.slots) - 1) :
             /\ call.slots[i][1] < call.slots[i + 1][1]
             /\ call.slots[i][2] <= call.slots[i + 1][1]
        /\ call.slots = ComputeFreeSlots(DayEvents(Relevant(calendar), call.day),
                                         call.day, call.duration)
        /\ (Relevant(calendar) = {e \in calendar : e.start = T1000 /\ e.end = T1100}
            /\ Cardinality(Relevant(calendar)) = 1 /\ call.duration = 60)
           => call.slots = << <<T0900, T1000>>, <<T1000 + Hour, T1800>> >>

\* the example, with a cancelled event and an event outside the window beside it
C3_Witness ==
    /\ call.fn = "slots" /\ call.phase = "done" /\ call.duration = 60
    /\ Cardinality(calendar) = 3
    /\ \E e \in calendar : e.status = "cancelled" /\ e.start = T1030
    /\ \E e \in calendar : e.status = "confirmed" /\ e.start = T1800
    /\ \E e \in calendar : e.status = "confirmed" /\ e.start = T1000 /\ e.end = T1100
    /\ call.slots = << <<T0900, T1000>>, <<T1100, T1800>> >>

---------------------------------------------------------------------------
(* Claims about the message handler *)

NonCancelled(events) == {i \in 1..Len(events) : events[i].status # "cancelled"}

Decides(r) == req[r].pc = "decide" /\ req'[r].pc = "done"

\* C4: a valid new request is decided created, with exactly one event
\* inserted for the proposed range, if and only if the snapshot fetched for
\* that range holds no non-cancelled event; otherwise it is refused, and a
\* new request inserts, updates or deletes nothing else.
C4_NewCreatedIffSnapshotFree ==
    [][\A r \in Handlers :
         req'[r].intent = "new" /\ req'[r] # req[r] =>
           IF Decides(r)
           THEN IF NonCancelled(req[r].events) = {}
                THEN /\ req'[r].status = "created"
                     /\ Cardinality(calendar' \ calendar) = 1
                     /\ calendar \subseteq calendar'
                     /\ \A e \in calendar' \ calendar :
                          /\ e.start = req[r].start_dt /\ e.end = req[r].end_dt
                          /\ e.status # "cancelled"
                ELSE /\ req'[r].status = "conflict"
                     /\ calendar' = calendar
           ELSE /\ calendar' = calendar
                /\ req'[r].status # "created"]_vars

\* a new request was created over a snapshot holding only a cancelled event
C4_Witness ==
    /\ req["h1"].intent = "new" /\ req["h1"].status = "created"
    /\ req["h1"].events # <<>>
    /\ \E e \in calendar : e.start = req["h1"].start_dt /\ e.status = "confirmed"

OnlyTargetInSnapshot(r) ==
    \A i \in NonCancelled(req[r].events) : req[r].events[i].id = req[r].target.id

\* C5: a change whose target is not found ends not_found with the calendar
\* unchanged; otherwise the decision ignores the target's own id: the request
\* is updated (the target, and only it, rewritten to the new range) exactly
\* when every non-cancelled event of the new range's snapshot is the target,
\* and refused with the calendar unchanged otherwise.
C5_ChangeIgnoresOwnTarget ==
    [][\A r \in Handlers :
         req'[r].intent = "change" /\ req'[r] # req[r]
         /\ req'[r].start_dt # NoTime /\ req'[r].end_dt # NoTime =>
           IF Decides(r)
           THEN /\ req[r].target # NoEvent
                /\ IF OnlyTargetInSnapshot(r)
                   THEN /\ req'[r].status = "updated"
                        /\ {e.id : e \in calendar'} = {e.id : e \in calendar}
                        /\ \A e \in calendar' :
                             IF e.id = req[r].target.id
                             THEN e.start = req[r].start_dt /\ e.end = req[r].end_dt
                             ELSE e \in calendar
                   ELSE /\ req'[r].status = "conflict"
                        /\ calendar' = calendar
           ELSE /\ calendar' = calendar
                /\ req'[r].status \notin {"updated", "conflict"}
                /\ req[r].pc = "resolve" =>
                     \/ req'[r].status = "not_found" /\ req'[r].target = NoEvent
                     \/ req'[r].pc = "fetch" /\ req'[r].target \in calendar]_vars

\* a change was moved onto a range that overlaps only its own current range
C5_Witness ==
    /\ req["h1"].intent = "change" /\ req["h1"].status = "updated"
    /\ \E i \in 1..Len(req["h1"].events) :
         /\ req["h1"].events[i].id = req["h1"].target.id
         /\ req["h1"].events[i].status = "confirmed"
    /\ req["h1"].target.start # req["h1"].start_dt

\* the owner tag of an event: the user id written after the marker at the
\* head of the description when the event was created
RECURSIVE UpToNewline(_)
UpToNewline(s) ==
    IF s = <<>> \/ s[1] = "N" THEN <<>> ELSE <<s[1]>> \o UpToNewline(Tail(s))

HasOwnerTag(description) == description # <<>> /\ description[1] = "L"
OwnerTag(description) == UpToNewline(Tail(description))

OwnedBy(e, user_id) ==
    HasOwnerTag(e.description) /\ OwnerTag(e.description) = user_id

\* C6: for a cancel or change of a non-empty user, the event resolved (and
\* then deleted or updated) carries that user's owner tag; an event of
\* another user, one whose id merely begins with the requester's, or one
\* whose notes quote the requester's marker, is never taken.
C6_TargetOwnedByRequester ==
    \A r \in Handlers :
        (req[r].intent \in {"cancel", "change"} /\ req[r].user_id # <<>>
         /\ req[r].target # NoEvent)
        => OwnedBy(req[r].target, req[r].user_id)

\* the events a resolver with a target start should choose from
Qualifying(cal, user_id, target_dt) ==
    {e \in cal : /\ user_id # <<>> => OwnedBy(e, user_id)
                 /\ Abs(e.start - target_dt) <= ACCEPT_SECONDS}

FirstOf(evs) == IF evs = {} THEN NoEvent ELSE OrderByStartTime(evs)[1]

\* the calendar is still as the resolver saw it
JustResolved(r) ==
    \/ req[r].pc \in {"delete", "fetch", "decide"}
    \/ req[r].pc = "done" /\ req[r].status \in {"not_found", "conflict"}

\* C7: with a target start the resolver returns the chronologically first
\* event of the requester that starts within 3600 seconds (inclusive) of it,
\* and none when no such event exists.
C7_FirstOwnedWithinRadius ==
    \A r \in Handlers :
        (req[r].intent \in {"cancel", "change"} /\ req[r].target_dt # NoTime
         /\ req[r].start_dt # NoTime /\ JustResolved(r))
        => req[r].target = FirstOf(Qualifying(calendar, req[r].user_id,
                                              req[r].target_dt))

\* What the resolver does guarantee: the same with "of the requester" read
\* as the containment test of line 314.
TimeSelectionAmongMatching ==
    \A r \in Handlers :
        (req[r].intent \in {"cancel", "change"} /\ req[r].target_dt # NoTime
         /\ req[r].start_dt # NoTime /\ JustResolved(r))
        => req[r].target =
             FirstOf({e \in calendar :
                        /\ OwnerMatches(req[r].user_id, e.description)
                        /\ Abs(e.start - req[r].target_dt) <= ACCEPT_SECONDS})

Decisions == {"created", "updated", "cancelled", "not_found", "conflict"}

\* C8: a new or change request without a start or an end ends in the error
\* status, which is no decision, before any target is resolved or snapshot
\* fetched and with the calendar untouched; a cancel is never ended that way.
C8_MissingRangeIsValidationFailure ==
    /\ [](\A r \in Handlers :
            /\ (req[r].intent \in {"new", "change"}
                /\ (req[r].start_dt = NoTime \/ req[r].end_dt = NoTime))
               => /\ req[r].pc = "done" /\ req[r].status = "error"
                  /\ req[r].status \notin Decisions
                  /\ req[r].target = NoEvent /\ ~req[r].fetched
            /\ (req[r].intent = "cancel" /\ req[r].pc = "done")
               => req[r].status \in {"not_found", "cancelled"})
    /\ [][\A r \in Handlers :
            (req'[r] # req[r] /\ req'[r].status = "error") => calendar' = calendar]_vars

\* a change with an end but no start was rejected while the calendar held
\* an event of the requester
C8_Witness ==
    /\ req["h1"].intent = "change" /\ req["h1"].status = "error"
    /\ req["h1"].start_dt = NoTime /\ req["h1"].end_dt # NoTime
    /\ \E e \in calendar : OwnedBy(e, req["h1"].user_id) /\ e.status = "confirmed"

EventsOverlap(e, f) == e.start < f.end /\ f.start < e.end

DoubleBooked ==
    \E e, f \in calendar :
        /\ e.id # f.id
        /\ e.status # "cancelled" /\ f.status # "cancelled"
        /\ EventsOverlap(e, f)

\* C9: the decision of a new request rests on the snapshot it fetched, not on
\* the store at the time of the insert: a request whose snapshot holds no
\* non-cancelled event is created and its event inserted whatever the store
\* holds by then, so two concurrent requests for overlapping ranges are both
\* created and the calendar holds two overlapping non-cancelled events.
C9_DecisionRestsOnSnapshot ==
    [][\A r \in Handlers :
         (req[r].intent = "new" /\ Decides(r) /\ NonCancelled(req[r].events) = {})
         => /\ req'[r].status = "created"
            /\ \E e \in calendar' \ calendar :
                 e.start = req[r].start_dt /\ e.end = req[r].end_dt]_vars

\* both handlers created their events and the events overlap
C9_Witness ==
    /\ \A r \in Handlers :
         /\ req[r].intent = "new" /\ req[r].status = "created"
         /\ NonCancelled(req[r].events) = {}
    /\ req["h1"].start_dt < req["h2"].end_dt
    /\ req["h2"].start_dt < req["h1"].end_dt
    /\ DoubleBooked

\* C10: with requests handled one at a time, from a calendar without two
\* overlapping non-cancelled events, no sequence of valid new, change and
\* cancel requests leads to two overlapping non-cancelled events.
C10_NoDoubleBooking == ~DoubleBooked

\* two touching events stand side by side after a change
C10_Witness ==
    /\ req["h1"].intent = "change" /\ req["h1"].status = "updated"
    /\ \E e, f \in calendar :
         /\ e.status = "confirmed" /\ f.status = "confirmed"
         /\ e.end = f.start

===========================================================================
